---- MODULE Spec2Model ----
(***************************************************************************)
(* MiniYOLAF (models/MiniYOLAF.py): the anchor grid cache, the greedy NMS  *)
(* loop and the postprocessing pipeline, as a state machine.               *)
(*                                                                         *)
(* Numbers.  Scores and thresholds are integers in hundredths (30 is 0.3). *)
(* Box coordinates are integers.  The floor 1e-28 of nms is the symbol e,  *)
(* a positive quantity smaller than every positive number of the model, so *)
(* a quantity is a triple <<c0, c1, c2>> standing for c0 + c1*e + c2*e^2,  *)
(* compared lexicographically.  In float32 (the dtype forward hands to     *)
(* postprocess) e*e = 1e-56 underflows to 0; in float64 it does not.       *)
(***************************************************************************)
EXTENDS Integers, Sequences, FiniteSets, TLC

VARIABLES
    \* ---- MiniYOLAF instance (self.*) ----
    status,          \* "new" | "constructed" | an exception name raised by __init__
    input_size,      \* self.input_size
    conf_thresh,     \* self.conf_thresh, hundredths
    nms_thresh,      \* self.nms_thresh, hundredths
    anchor_size,     \* self.anchor_size: per scale, the anchors <<w, h>> in declared order
    anchor_number,   \* self.anchor_number
    grid_cell,       \* self.grid_cell      (one <<x, y>> per slot)
    stride_tensor,   \* self.stride_tensor  (one stride per slot)
    all_anchors_wh,  \* self.all_anchors_wh (one <<w, h>> per slot)
    scale,           \* self.scale
    scale_torch,     \* self.scale_torch    (the resolution used to normalise)
    \* ---- set_grid in progress (the writer) ----
    wpc,             \* position inside set_grid
    wnew,            \* set_grid's argument and what its create_grid call returned
    history,         \* the resolutions the cache was built for, oldest first
    \* ---- one inference call reading the cache (the reader) ----
    rpc,             \* position inside forward/decode_xywh
    seen,            \* what the call has read so far
    calls,           \* inference calls started
    \* ---- postprocess / nms ----
    dtype,           \* dtype of the arrays given to nms
    all_local,       \* postprocess argument: boxes
    all_conf,        \* postprocess argument: scores
    pc,              \* position inside postprocess / nms
    run,             \* 1: nms called by postprocess, 2: nms called again on its output
    thresh_keep,     \* np.where(scores >= conf_thresh), 1-based
    dets,            \* nms argument
    scores,          \* nms argument
    order,           \* nms local
    keep,            \* nms local
    rounds,          \* number of loop iterations executed by the running nms
    discarded,       \* the indices the running nms dropped from order, in the order dropped
    c_keep,          \* postprocess local: what nms returned
    out_bbox,        \* postprocess result
    out_scores,      \* postprocess result
    raised           \* exception raised by postprocess, "none" when none

gridvars == <<status, input_size, anchor_size, anchor_number, grid_cell, stride_tensor,
              all_anchors_wh, scale, scale_torch, wpc, wnew, history, rpc, seen, calls>>
nmsvars  == <<dtype, all_local, all_conf, pc, run, thresh_keep, dets, scores,
              order, keep, rounds, discarded, c_keep, out_bbox, out_scores, raised>>
vars     == <<gridvars, nmsvars, conf_thresh, nms_thresh>>

(***************************************************************************)
(* Bounds of the model.                                                    *)
(***************************************************************************)
MaxN == 3
MaxX == 2
MaxY == 1
MaxRes == 4
MaxAnchors == 2
MaxSetGrid == 1
MaxCalls == 1

Range(s) == {s[k] : k \in 1..Len(s)}

\* the [::-1] left out
NotReversed(s) == s

\* s[::-1]
Reverse(s) == [k \in 1..Len(s) |-> s[Len(s) + 1 - k]]

\* a[idx] for an index array idx (1-based)
Gather(a, idx) == [k \in 1..Len(idx) |-> a[idx[k]]]

\* np.where(b)[0] for a boolean array b, 1-based positions in increasing order
Where(b) == SelectSeq([k \in 1..Len(b) |-> k], LAMBDA k : b[k])

(***************************************************************************)
(* Quantities c0 + c1*e + c2*e^2.                                          *)
(***************************************************************************)
Sgn(n) == IF n > 0 THEN 1 ELSE IF n < 0 THEN -1 ELSE 0

Sign(q) == IF q[1] # 0 THEN Sgn(q[1]) ELSE IF q[2] # 0 THEN Sgn(q[2]) ELSE Sgn(q[3])

Num(n) == <<n, 0, 0>>

Scale(n, q) == <<n * q[1], n * q[2], n * q[3]>>

Sub(p, q) == <<p[1] - q[1], p[2] - q[2], p[3] - q[3]>>

\* product of two quantities of degree at most 1
Mul(p, q) == <<p[1] * q[1], p[1] * q[2] + p[2] * q[1], p[2] * q[2]>>

\* the result of an arithmetic operation stored in the arrays' dtype:
\* float32 has no value between 0 and 1.4e-45, so 1e-56 becomes 0
Stored(q) == IF dtype = "float32" THEN <<q[1], q[2], 0>> ELSE q

(***************************************************************************)
(* nms, lines 125-154.                                                     *)
(***************************************************************************)
\* line 132, for one box
area(b) == (b[3] - b[1]) * (b[4] - b[2])

\* lines 144-145: np.maximum(1e-28, d) for an integer d
Floor(d) == IF d > 0 THEN <<d, 0, 0>> ELSE <<0, 1, 0>>

Max(a, b) == IF a >= b THEN a ELSE b

Min(a, b) == IF a <= b THEN a ELSE b

\* lines 139-146, for the popped box bi and one remaining box bj
inter(bi, bj) ==
    LET xx1 == Max(bi[1], bj[1])
        yy1 == Max(bi[2], bj[2])
        xx2 == Min(bi[3], bj[3])
        yy2 == Min(bi[4], bj[4])
        w   == Floor(xx2 - xx1)
        h   == Floor(yy2 - yy1)
    IN  Stored(Mul(w, h))

\* a denominator that leaves out the popped box's area
union_remaining_only(bi, bj) == Num(area(bj))

\* line 149, the denominator
union(bi, bj) == Sub(Num(area(bi) + area(bj)), inter(bi, bj))

\* the comparison of line 151 the wrong way round
ovr_le_flipped(bi, bj) ==
    LET d == union(bi, bj)
        c == Sign(Sub(Scale(100, inter(bi, bj)), Scale(nms_thresh, d)))
    IN  CASE Sign(d) > 0 -> c >= 0
          [] Sign(d) < 0 -> c <= 0
          [] OTHER       -> FALSE

\* line 151: ovr <= self.nms_thresh.  A zero denominator gives inf (inter > 0)
\* or nan (inter = 0); neither is <= anything.
ovr_le(bi, bj) ==
    LET d == union(bi, bj)
        c == Sign(Sub(Scale(100, inter(bi, bj)), Scale(nms_thresh, d)))
    IN  CASE Sign(d) > 0 -> c <= 0
          [] Sign(d) < 0 -> c >= 0
          [] OTHER       -> FALSE

\* ovr > self.nms_thresh for the ovr of line 149 (inf is, nan is not)
ovr_gt(bi, bj) ==
    LET d == union(bi, bj)
        c == Sign(Sub(Scale(100, inter(bi, bj)), Scale(nms_thresh, d)))
    IN  CASE Sign(d) > 0 -> c > 0
          [] Sign(d) < 0 -> c < 0
          [] OTHER       -> Sign(inter(bi, bj)) > 0

\* the comparisons for two indices of dets
OvrLE(i, j) == ovr_le(dets[i], dets[j])

OvrGT(i, j) == ovr_gt(dets[i], dets[j])

Perms(n) == {p \in [1..n -> 1..n] : \A a, b \in 1..n : a # b => p[a] # p[b]}

\* line 133, scores.argsort(): numpy's default kind is quicksort, which is not
\* stable, so every ascending arrangement is a possible result
argsort(s) == {p \in Perms(Len(s)) : \A a, b \in 1..Len(s) : a < b => s[p[a]] <= s[p[b]]}

\* line 151: np.where(ovr <= self.nms_thresh)[0], as 0-based positions in order[1:]
inds(i, rest) == [k \in 1..Len(Where([n \in 1..Len(rest) |-> OvrLE(i, rest[n])])) |->
                     Where([n \in 1..Len(rest) |-> OvrLE(i, rest[n])])[k] - 1]

\* order[inds]: the shift by one of line 152 left out
NextOrderNoShift(ord, ix) == [k \in 1..Len(ix) |-> ord[ix[k] + 1]]

\* line 152: order[inds + 1]; ord is 1-based here, so 0-based position p is ord[p + 1]
NextOrder(ord, ix) == [k \in 1..Len(ix) |-> ord[(ix[k] + 1) + 1]]

\* line 152: the entries of order[1:] whose position is not in inds
Dropped(rest, ix) == SelectSeq(rest, LAMBDA j : \A k \in 1..Len(ix) : rest[ix[k] + 1] # j)

\* lines 127-135
NmsSort ==
    /\ pc = "sort"
    /\ \E p \in argsort(scores) : order' = Reverse(p)
    /\ keep' = <<>>
    /\ rounds' = 0
    /\ discarded' = <<>>
    /\ pc' = "loop"
    /\ UNCHANGED <<gridvars, conf_thresh, nms_thresh, dtype, all_local, all_conf, run,
                   thresh_keep, dets, scores, c_keep, out_bbox, out_scores, raised>>

\* lines 136-152, one iteration
NmsRound ==
    /\ pc = "loop"
    /\ Len(order) > 0
    /\ LET i == order[1]
       IN  /\ keep' = Append(keep, i)
           /\ order' = NextOrder(order, inds(i, Tail(order)))
           /\ discarded' = discarded \o Dropped(Tail(order), inds(i, Tail(order)))
    /\ rounds' = rounds + 1
    /\ UNCHANGED <<gridvars, conf_thresh, nms_thresh, dtype, all_local, all_conf, pc, run,
                   thresh_keep, dets, scores, c_keep, out_bbox, out_scores, raised>>

(***************************************************************************)
(* postprocess, lines 156-180.                                             *)
(***************************************************************************)
\* no thresholding at all
ThresholdKeepAll(sc) == Where([k \in 1..Len(sc) |-> TRUE])

\* line 167
ThresholdKeep(sc) == Where([k \in 1..Len(sc) |-> sc[k] >= conf_thresh])

\* lines 164-169, then the call of nms on line 173
PostFilter ==
    /\ pc = "postprocess"
    /\ thresh_keep' = ThresholdKeep(all_conf)
    /\ dets' = Gather(all_local, ThresholdKeep(all_conf))
    /\ scores' = Gather(all_conf, ThresholdKeep(all_conf))
    /\ pc' = "sort"
    /\ UNCHANGED <<gridvars, conf_thresh, nms_thresh, dtype, all_local, all_conf, run,
                   order, keep, rounds, discarded, c_keep, out_bbox, out_scores, raised>>

\* indexing with c_keep itself instead of with the mask
MaskKeepInOrder(n, ck) == ck

\* lines 172-176: keep = zeros(n); keep[c_keep] = 1; np.where(keep > 0)
MaskKeep(n, ck) == Where([k \in 1..n |-> k \in Range(ck)])

\* line 154 (nms returns), then lines 172-180
PostMask ==
    /\ pc = "loop"
    /\ run = 1
    /\ Len(order) = 0
    /\ c_keep' = keep
    /\ IF \A k \in Range(keep) : k \in 1..Len(dets)
       THEN /\ out_bbox' = Gather(dets, MaskKeep(Len(dets), keep))
            /\ out_scores' = Gather(scores, MaskKeep(Len(dets), keep))
            /\ raised' = "none"
       ELSE /\ raised' = "IndexError"
            /\ UNCHANGED <<out_bbox, out_scores>>
    /\ pc' = "returned"
    /\ UNCHANGED <<gridvars, conf_thresh, nms_thresh, dtype, all_local, all_conf, run,
                   thresh_keep, dets, scores, order, keep, rounds, discarded>>

\* nms called again, on the boxes and scores postprocess returned
Rerun ==
    /\ pc = "returned"
    /\ raised = "none"
    /\ run' = 2
    /\ dets' = out_bbox
    /\ scores' = out_scores
    /\ pc' = "sort"
    /\ UNCHANGED <<gridvars, conf_thresh, nms_thresh, dtype, all_local, all_conf,
                   thresh_keep, order, keep, rounds, discarded, c_keep, out_bbox, out_scores, raised>>

\* line 154 of the second call
RerunReturn ==
    /\ pc = "loop"
    /\ run = 2
    /\ Len(order) = 0
    /\ pc' = "done"
    /\ UNCHANGED <<gridvars, conf_thresh, nms_thresh, dtype, all_local, all_conf, run,
                   thresh_keep, dets, scores, order, keep, rounds, discarded, c_keep,
                   out_bbox, out_scores, raised>>


(***************************************************************************)
(* The anchor grid: __init__, create_grid, set_grid, and the reads of      *)
(* forward / decode_xywh.                                                  *)
(***************************************************************************)
\* line 17
stride == <<8, 16, 32>>

\* the anchor_size argument after .view(3, len // 3, 2) (line 18), for a anchors per scale
AnchorList(a) == [ind \in 1..3 |-> [n \in 1..a |-> <<10 * ind + n, 20 * ind + n>>]]

\* meshgrid with the two index arrays taken in the other order
ScaleCellsTransposed(size, s) ==
    [c \in 1..((size \div s) * (size \div s)) |->
        <<(c - 1) \div (size \div s), (c - 1) % (size \div s)>>]

\* lines 63-66: the cells <<x, y>> of one scale; after view(1, hs*ws, 1, 2) cell
\* number c (0-based) is row c // ws, column c % ws of the meshgrid
ScaleCells(size, s) ==
    [c \in 1..((size \div s) * (size \div s)) |->
        <<(c - 1) % (size \div s), (c - 1) \div (size \div s)>>]

\* line 69: per cell and anchor, the stride twice
ScaleStride(size, s, a) ==
    [c \in 1..((size \div s) * (size \div s)) |-> [n \in 1..a |-> <<s, s>>]]

\* line 72: per cell, the scale's anchors in declared order
ScaleAnchors(size, s, anchors) ==
    [c \in 1..((size \div s) * (size \div s)) |-> anchors]

\* lines 56-82
create_grid(size, anc) ==
    [grid_cell      |-> ScaleCells(size, stride[1]) \o ScaleCells(size, stride[2])
                            \o ScaleCells(size, stride[3]),
     stride_tensor  |-> ScaleStride(size, stride[1], Len(anc[1]))
                            \o ScaleStride(size, stride[2], Len(anc[1]))
                            \o ScaleStride(size, stride[3], Len(anc[1])),
     all_anchors_wh |-> ScaleAnchors(size, stride[1], anc[1])
                            \o ScaleAnchors(size, stride[2], anc[2])
                            \o ScaleAnchors(size, stride[3], anc[3])]

\* lines 98-102: the three cached tensors broadcast against each other and viewed
\* as [HW * anchor_n] rows: row k (0-based) is cell k // anchor_n, anchor k % anchor_n
GridTable(g, st, wh, a) ==
    [k \in 1..(Len(g) * a) |->
        [cell   |-> g[((k - 1) \div a) + 1],
         stride |-> st[((k - 1) \div a) + 1][((k - 1) % a) + 1],
         anchor |-> wh[((k - 1) \div a) + 1][((k - 1) % a) + 1]]]

\* lines 199-211: slots per scale of the raw tensors, for feature maps of
\* size \div stride cells a side
ScaleSlots(size, ind, a) == (size \div stride[ind]) * (size \div stride[ind]) * a

\* lines 199-211: where slot k (0-based) of the concatenated raw tensor comes
\* from: p3 (stride 8) first, then p4, then p5; within a scale permute(0, 2, 3, 1)
\* and view(B, -1, 4) put y outermost, then x, then the anchor
ForwardSlot(k, size, a) ==
    LET n1  == ScaleSlots(size, 1, a)
        n2  == ScaleSlots(size, 2, a)
        ind == IF k < n1 THEN 1 ELSE IF k < n1 + n2 THEN 2 ELSE 3
        r   == IF k < n1 THEN k ELSE IF k < n1 + n2 THEN k - n1 ELSE k - n1 - n2
        w   == size \div stride[ind]
    IN  [ind |-> ind, y |-> (r \div a) \div w, x |-> (r \div a) % w, anchor |-> (r % a) + 1]

Resolutions == {16 * k : k \in 1..MaxRes}

ConfChoices == {1, 120}

NmsChoices == {0, 30}

\* lines 10-23: no argument is checked
Construct ==
    /\ status = "new"
    /\ \E size \in Resolutions, a \in 1..MaxAnchors :
          /\ input_size' = size
          /\ anchor_size' = AnchorList(a)
          /\ anchor_number' = a
          /\ grid_cell' = create_grid(size, AnchorList(a)).grid_cell
          /\ stride_tensor' = create_grid(size, AnchorList(a)).stride_tensor
          /\ all_anchors_wh' = create_grid(size, AnchorList(a)).all_anchors_wh
          /\ scale' = size
          /\ scale_torch' = size
          /\ history' = <<size>>
    /\ conf_thresh' \in ConfChoices
    /\ nms_thresh' \in NmsChoices
    /\ status' = "constructed"
    /\ UNCHANGED <<wpc, wnew, rpc, seen, calls, nmsvars>>

\* line 85, right-hand side: set_grid(size) is called and create_grid returns
SetGridCall ==
    /\ status = "constructed"
    /\ wpc = "idle"
    /\ Len(history) <= MaxSetGrid
    /\ \E size \in Resolutions :
          wnew' = [size |-> size, grid |-> create_grid(size, anchor_size)]
    /\ wpc' = "grid_cell"
    /\ UNCHANGED <<status, input_size, anchor_size, anchor_number, grid_cell, stride_tensor,
                   all_anchors_wh, scale, scale_torch, history, rpc, seen, calls,
                   nmsvars, conf_thresh, nms_thresh>>

\* line 85, the first target of the assignment
StoreGridCell ==
    /\ wpc = "grid_cell"
    /\ grid_cell' = wnew.grid.grid_cell
    /\ wpc' = "stride_tensor"
    /\ UNCHANGED <<status, input_size, anchor_size, anchor_number, stride_tensor,
                   all_anchors_wh, scale, scale_torch, wnew, history, rpc, seen, calls,
                   nmsvars, conf_thresh, nms_thresh>>

\* line 85, the second target
StoreStrideTensor ==
    /\ wpc = "stride_tensor"
    /\ stride_tensor' = wnew.grid.stride_tensor
    /\ wpc' = "all_anchors_wh"
    /\ UNCHANGED <<status, input_size, anchor_size, anchor_number, grid_cell,
                   all_anchors_wh, scale, scale_torch, wnew, history, rpc, seen, calls,
                   nmsvars, conf_thresh, nms_thresh>>

\* line 85, the third target
StoreAnchorsWh ==
    /\ wpc = "all_anchors_wh"
    /\ all_anchors_wh' = wnew.grid.all_anchors_wh
    /\ wpc' = "scale"
    /\ UNCHANGED <<status, input_size, anchor_size, anchor_number, grid_cell,
                   stride_tensor, scale, scale_torch, wnew, history, rpc, seen, calls,
                   nmsvars, conf_thresh, nms_thresh>>

\* line 86
StoreScale ==
    /\ wpc = "scale"
    /\ scale' = wnew.size
    /\ wpc' = "scale_torch"
    /\ UNCHANGED <<status, input_size, anchor_size, anchor_number, grid_cell,
                   stride_tensor, all_anchors_wh, scale_torch, wnew, history, rpc, seen,
                   calls, nmsvars, conf_thresh, nms_thresh>>

\* line 87, and set_grid returns
StoreScaleTorch ==
    /\ wpc = "scale_torch"
    /\ scale_torch' = scale
    /\ history' = Append(history, wnew.size)
    /\ wnew' = <<>>
    /\ wpc' = "idle"
    /\ UNCHANGED <<status, input_size, anchor_size, anchor_number, grid_cell,
                   stride_tensor, all_anchors_wh, scale, rpc, seen, calls,
                   nmsvars, conf_thresh, nms_thresh>>

\* forward reaches line 219 and enters decode_boxes / decode_xywh
ForwardCall ==
    /\ status = "constructed"
    /\ rpc = "idle"
    /\ calls < MaxCalls
    /\ calls' = calls + 1
    /\ seen' = <<>>
    /\ rpc' = "grid_cell"
    /\ UNCHANGED <<status, input_size, anchor_size, anchor_number, grid_cell, stride_tensor,
                   all_anchors_wh, scale, scale_torch, wpc, wnew, history,
                   nmsvars, conf_thresh, nms_thresh>>

\* line 98: self.grid_cell
ReadGridCell ==
    /\ rpc = "grid_cell"
    /\ seen' = Append(seen, grid_cell)
    /\ rpc' = "stride_tensor"
    /\ UNCHANGED <<status, input_size, anchor_size, anchor_number, grid_cell, stride_tensor,
                   all_anchors_wh, scale, scale_torch, wpc, wnew, history, calls,
                   nmsvars, conf_thresh, nms_thresh>>

\* line 98: self.stride_tensor
ReadStrideTensor ==
    /\ rpc = "stride_tensor"
    /\ seen' = Append(seen, stride_tensor)
    /\ rpc' = "all_anchors_wh"
    /\ UNCHANGED <<status, input_size, anchor_size, anchor_number, grid_cell, stride_tensor,
                   all_anchors_wh, scale, scale_torch, wpc, wnew, history, calls,
                   nmsvars, conf_thresh, nms_thresh>>

\* line 100: self.all_anchors_wh
ReadAnchorsWh ==
    /\ rpc = "all_anchors_wh"
    /\ seen' = Append(seen, all_anchors_wh)
    /\ rpc' = "scale_torch"
    /\ UNCHANGED <<status, input_size, anchor_size, anchor_number, grid_cell, stride_tensor,
                   all_anchors_wh, scale, scale_torch, wpc, wnew, history, calls,
                   nmsvars, conf_thresh, nms_thresh>>

\* line 219: self.scale_torch
ReadScaleTorch ==
    /\ rpc = "scale_torch"
    /\ seen' = Append(seen, scale_torch)
    /\ rpc' = "decoded"
    /\ UNCHANGED <<status, input_size, anchor_size, anchor_number, grid_cell, stride_tensor,
                   all_anchors_wh, scale, scale_torch, wpc, wnew, history, calls,
                   nmsvars, conf_thresh, nms_thresh>>

\* line 226: forward returns
ForwardReturn ==
    /\ rpc = "decoded"
    /\ rpc' = "idle"
    /\ UNCHANGED <<status, input_size, anchor_size, anchor_number, grid_cell, stride_tensor,
                   all_anchors_wh, scale, scale_torch, wpc, wnew, history, seen, calls,
                   nmsvars, conf_thresh, nms_thresh>>

(***************************************************************************)
(* Inputs.                                                                 *)
(***************************************************************************)
\* the extents [a, b] of a box along one axis: every proper one, and the empty one at 0
Spans(max) == {sp \in (0..max) \X (0..max) : sp[1] < sp[2] \/ sp = <<0, 0>>}

XSpans == Spans(MaxX)

YSpans == Spans(MaxY)

\* corner-form boxes with xmin <= xmax and ymin <= ymax, zero-area ones included
Boxes == {<<xs[1], ys[1], xs[2], ys[2]>> : xs \in XSpans, ys \in YSpans}

ScoreValues == {40, 50}

\* spec section 8: A, B, C with scores 0.9, 0.8, 0.5 and overlap threshold 0.3
ExampleBoxes == <<(<<0, 0, 10, 10>>), (<<1, 1, 9, 9>>), (<<100, 100, 110, 110>>)>>

ExampleScores == <<90, 80, 50>>

\* the instance the pipeline runs on: MiniYOLAF(input_size=32, anchor_size=AnchorList(1))
GridBuilt ==
    /\ status = "constructed"
    /\ input_size = 32
    /\ anchor_size = AnchorList(1)
    /\ anchor_number = 1
    /\ grid_cell = create_grid(32, AnchorList(1)).grid_cell
    /\ stride_tensor = create_grid(32, AnchorList(1)).stride_tensor
    /\ all_anchors_wh = create_grid(32, AnchorList(1)).all_anchors_wh
    /\ scale = 32
    /\ scale_torch = 32
    /\ wpc = "idle"
    /\ wnew = <<>>
    /\ history = <<32>>
    /\ rpc = "idle"
    /\ seen = <<>>
    /\ calls = 0

NmsInit ==
    /\ GridBuilt
    /\ dtype \in {"float32", "float64"}
    /\ conf_thresh \in {1, 50}
    /\ \/ /\ nms_thresh = 50
          /\ \E n \in 0..MaxN :
                /\ all_local \in [1..n -> Boxes]
                /\ all_conf \in [1..n -> ScoreValues]
       \/ /\ nms_thresh = 30
          /\ all_local = ExampleBoxes
          /\ all_conf = ExampleScores
    /\ pc = "postprocess"
    /\ run = 1
    /\ thresh_keep = <<>>
    /\ dets = <<>>
    /\ scores = <<>>
    /\ order = <<>>
    /\ keep = <<>>
    /\ rounds = 0
    /\ discarded = <<>>
    /\ c_keep = <<>>
    /\ out_bbox = <<>>
    /\ out_scores = <<>>
    /\ raised = "none"

NmsNext == PostFilter \/ NmsSort \/ NmsRound \/ PostMask \/ Rerun \/ RerunReturn

Spec == NmsInit /\ [][NmsNext]_vars

\* before MiniYOLAF(...) is called; no postprocess call is followed
GridInit ==
    /\ status = "new"
    /\ input_size = 0
    /\ anchor_size = <<>>
    /\ anchor_number = 0
    /\ grid_cell = <<>>
    /\ stride_tensor = <<>>
    /\ all_anchors_wh = <<>>
    /\ scale = 0
    /\ scale_torch = 0
    /\ conf_thresh = 0
    /\ nms_thresh = 0
    /\ wpc = "idle"
    /\ wnew = <<>>
    /\ history = <<>>
    /\ rpc = "idle"
    /\ seen = <<>>
    /\ calls = 0
    /\ dtype = "float32"
    /\ all_local = <<>>
    /\ all_conf = <<>>
    /\ pc = "idle"
    /\ run = 1
    /\ thresh_keep = <<>>
    /\ dets = <<>>
    /\ scores = <<>>
    /\ order = <<>>
    /\ keep = <<>>
    /\ rounds = 0
    /\ discarded = <<>>
    /\ c_keep = <<>>
    /\ out_bbox = <<>>
    /\ out_scores = <<>>
    /\ raised = "none"

GridNext ==
    \/ Construct
    \/ SetGridCall \/ StoreGridCell \/ StoreStrideTensor \/ StoreAnchorsWh
    \/ StoreScale \/ StoreScaleTorch
    \/ ForwardCall \/ ReadGridCell \/ ReadStrideTensor \/ ReadAnchorsWh
    \/ ReadScaleTorch \/ ForwardReturn

SpecGrid == GridInit /\ [][GridNext]_vars


(***************************************************************************)
(* Properties of nms and postprocess, checked under Spec.                  *)
(***************************************************************************)
InNms == pc = "loop" \/ pc = "returned" \/ pc = "done"

IsExample == run = 1 /\ all_local = ExampleBoxes /\ all_conf = ExampleScores /\ nms_thresh = 30

\* C1: no two kept indices i, j, i selected before j, have IoU(i, j) above
\* nms_thresh; on the example A, B, C of the spec the kept set is {A, C}.
C1_NoKeptPairOverlaps ==
    /\ InNms => \A a, b \in 1..Len(keep) : a < b => ~OvrGT(keep[a], keep[b])
    /\ (IsExample /\ pc = "returned" /\ conf_thresh <= 50) =>
            /\ Range(c_keep) = {1, 3}
            /\ out_bbox = <<ExampleBoxes[1], ExampleBoxes[3]>>

C1_Witness ==
    /\ IsExample /\ pc = "returned" /\ conf_thresh = 1
    /\ c_keep = <<1, 3>>
    /\ discarded = <<2>>

\* the k-th smallest element of a set of numbers
KthSmallest(S, k) == CHOOSE i \in S : Cardinality({m \in S : m < i}) = k - 1

\* C2 as stated: the k-th returned (box, score) is the pair at the k-th index of
\* the list nms returned, so the returned scores are non-increasing.
C2_ReturnedInSelectionOrder ==
    (pc = "returned" /\ raised = "none") =>
        /\ out_bbox = Gather(dets, c_keep)
        /\ out_scores = Gather(scores, c_keep)
        /\ \A a, b \in 1..Len(out_scores) : a < b => out_scores[a] >= out_scores[b]

\* C2 amended: postprocess returns the pairs at the kept indices in ascending
\* index order (the order of its input), whatever order nms selected them in.
C2_ReturnedInIndexOrder ==
    (pc = "returned" /\ raised = "none") =>
        /\ Len(out_bbox) = Cardinality(Range(c_keep))
        /\ Len(out_scores) = Cardinality(Range(c_keep))
        /\ \A k \in 1..Len(out_bbox) :
              /\ out_bbox[k] = dets[KthSmallest(Range(c_keep), k)]
              /\ out_scores[k] = scores[KthSmallest(Range(c_keep), k)]

C2_Witness ==
    /\ pc = "returned" /\ raised = "none"
    /\ Len(c_keep) >= 2
    /\ c_keep[1] > c_keep[2]
    /\ scores[c_keep[1]] > scores[c_keep[2]]
    /\ out_scores[1] < out_scores[2]

Sorted == pc = "loop" /\ rounds = 0

\* C3 as stated: of two candidates with equal scores the one with the smaller
\* index is visited first.
C3_TiesByAscendingIndex ==
    Sorted => \A a, b \in 1..Len(order) :
                 (a < b /\ scores[order[a]] = scores[order[b]]) => order[a] < order[b]

\* C3 amended: candidates are visited by non-increasing score; nothing more is
\* promised about candidates whose scores are equal.
C3_VisitedByDescendingScore ==
    /\ Sorted => /\ Len(order) = Len(scores)
                 /\ Range(order) = 1..Len(scores)
                 /\ \A a, b \in 1..Len(order) : a < b => scores[order[a]] >= scores[order[b]]
    /\ InNms => \A a, b \in 1..Len(keep) : a < b => scores[keep[a]] >= scores[keep[b]]

\* two overlapping candidates with equal scores, the later one popped first and kept
C3_Witness ==
    /\ pc = "loop" /\ Len(order) = 0 /\ Len(dets) >= 2
    /\ \E a \in Range(keep), b \in 1..Len(dets) :
          /\ b < a
          /\ scores[a] = scores[b]
          /\ OvrGT(a, b)
          /\ b \in Range(discarded)

InputPairReturned(o) ==
    \E k \in 1..Len(out_bbox) : out_bbox[k] = all_local[o] /\ out_scores[k] = all_conf[o]

\* C4: every returned detection is an input pair with score >= conf_thresh; a
\* candidate with score >= conf_thresh that is not returned failed the overlap
\* test against a returned candidate; no candidate reaching conf_thresh gives
\* an empty result and no error.
C4_ThresholdFiltering ==
    (pc = "returned" /\ run = 1) =>
        /\ raised = "none"
        /\ Len(out_bbox) = Len(out_scores)
        /\ \A k \in 1..Len(out_scores) :
              /\ out_scores[k] >= conf_thresh
              /\ \E o \in 1..Len(all_conf) :
                    all_local[o] = out_bbox[k] /\ all_conf[o] = out_scores[k]
        /\ \A o \in 1..Len(all_conf) :
              (all_conf[o] >= conf_thresh /\ ~InputPairReturned(o)) =>
                  \E k \in 1..Len(out_bbox) : ~ovr_le(out_bbox[k], all_local[o])
        /\ (\A o \in 1..Len(all_conf) : all_conf[o] < conf_thresh) =>
              out_bbox = <<>> /\ out_scores = <<>>

\* a candidate under the threshold lies exactly on a returned box and is not returned
C4_Witness ==
    /\ pc = "returned" /\ run = 1 /\ raised = "none"
    /\ Len(out_bbox) >= 1
    /\ \E o \in 1..Len(all_conf) :
          /\ all_conf[o] < conf_thresh
          /\ \E k \in 1..Len(out_bbox) : out_bbox[k] = all_local[o] /\ area(all_local[o]) > 0
          /\ \A k \in 1..Len(out_bbox) : out_scores[k] > all_conf[o]

\* C7: nms run again on the boxes and scores a first run kept keeps them all.
C7_Idempotent ==
    (pc = "done" /\ run = 2) =>
        /\ dets = out_bbox /\ scores = out_scores
        /\ Len(keep) = Len(dets)
        /\ Range(keep) = 1..Len(dets)
        /\ discarded = <<>>

\* the first run dropped a box and kept two that tie, the second run keeps both
C7_Witness ==
    /\ pc = "done" /\ run = 2
    /\ Len(c_keep) < Len(thresh_keep)
    /\ Len(keep) >= 2
    /\ scores[1] = scores[2]
    /\ area(dets[1]) > 0 /\ area(dets[2]) > 0

\* C9 as stated: a dropped index j has IoU(i, j) > nms_thresh with a kept index i,
\* and the highest-scoring candidate is kept.
C9_DroppedOnlyAboveThreshold ==
    InNms =>
        /\ \A j \in Range(discarded) : \E i \in Range(keep) : OvrGT(i, j)
        /\ (rounds >= 1) => \A j \in 1..Len(dets) : scores[keep[1]] >= scores[j]

\* C10: the order list shrinks in every round and never holds an index twice;
\* after at most N rounds it is empty, and each index is then in keep or
\* dropped, exactly once.
C10_Partition ==
    pc = "loop" =>
        /\ rounds <= Len(dets)
        /\ Len(keep) = rounds
        /\ Len(order) <= Len(dets) - rounds
        /\ Len(keep) + Len(order) + Len(discarded) = Len(dets)
        /\ Range(keep) \cup Range(order) \cup Range(discarded) = 1..Len(dets)

\* C10, in full: the partition above holds throughout, and every round of the
\* loop leaves order strictly shorter, so the loop ends within N rounds.
C10_Terminates ==[](C10_Partition) /\ [][NmsRound => Len(order') < Len(order)]_vars

C10_Witness ==
    /\ pc = "loop" /\ Len(order) = 0
    /\ Len(dets) = 3 /\ rounds = 2
    /\ Len(discarded) = 1

(***************************************************************************)
(* Properties of the grid cache, checked under SpecGrid.                   *)
(***************************************************************************)
ValidThreshold(t) == 0 < t /\ t < 100

ValidResolution(size) == \A ind \in 1..3 : size % stride[ind] = 0

\* what an inference call reads when the cache holds the table of one resolution
TableOf(size) ==
    <<create_grid(size, anchor_size).grid_cell, create_grid(size, anchor_size).stride_tensor,
      create_grid(size, anchor_size).all_anchors_wh, size>>

\* C5 as stated: an inference call that runs while set_grid replaces the cache
\* reads the values of one resolution only, the old one's or the new one's.
\* (Stated for instances whose thresholds and resolutions are all valid.)
C5_ReaderSeesOneTable ==
    (/\ rpc = "decoded"
     /\ ValidThreshold(conf_thresh) /\ ValidThreshold(nms_thresh)
     /\ \A k \in 1..Len(history) : ValidResolution(history[k])
     /\ wpc # "idle" => ValidResolution(wnew.size))
    => \E size \in Resolutions : seen = TableOf(size)

\* C6 as stated: an instance exists only for thresholds inside (0, 1) and a
\* resolution that is a multiple of 8, 16 and 32, so no table is built for
\* another resolution and no inference call runs with another threshold.
C6_InvalidConfigRejected ==
    /\ status = "constructed" =>
          /\ ValidThreshold(conf_thresh)
          /\ ValidThreshold(nms_thresh)
          /\ ValidResolution(input_size)
    /\ \A k \in 1..Len(history) : ValidResolution(history[k])
    /\ rpc # "idle" => ValidThreshold(conf_thresh) /\ ValidThreshold(nms_thresh)

\* C8: the table has sum over the strides of (S / s)^2 * a rows; row k is the
\* cell <<x, y>>, the stride and the anchor of the k-th slot of the raw tensors
\* as forward lays them out; a rebuild for the same S gives the same table.
C8_GridLayout ==
    (status = "constructed" /\ wpc = "idle") =>
        LET t == GridTable(grid_cell, stride_tensor, all_anchors_wh, anchor_number)
        IN  /\ Len(t) = ScaleSlots(scale_torch, 1, anchor_number)
                          + ScaleSlots(scale_torch, 2, anchor_number)
                          + ScaleSlots(scale_torch, 3, anchor_number)
            /\ \A k \in 1..Len(t) :
                  LET f == ForwardSlot(k - 1, scale_torch, anchor_number)
                  IN  /\ t[k].cell = <<f.x, f.y>>
                      /\ t[k].stride = <<stride[f.ind], stride[f.ind]>>
                      /\ t[k].anchor = anchor_size[f.ind][f.anchor]
            /\ \A k \in 1..Len(history) :
                  history[k] = scale_torch =>
                      <<grid_cell, stride_tensor, all_anchors_wh, scale_torch>> = TableOf(history[k])

\* the cache was rebuilt for 64 with two anchors per scale: 168 rows, three scales
C8_Witness ==
    /\ status = "constructed" /\ wpc = "idle"
    /\ Len(history) = 2
    /\ history[1] = 32
    /\ scale_torch = 64
    /\ anchor_number = 2
    /\ Len(grid_cell) * anchor_number = 168


====
